---- MODULE Spec2Model ----
(***************************************************************************)
(* Model of radicalfield/_quadraticelement2module.c: the QuadraticElement2 *)
(* extension type (construction, dealloc, traverse, clear) under CPython's *)
(* reference counting and collector protocol.                              *)
(*                                                                         *)
(* The interpreter is single threaded: calls nest.  `stack` is the C call  *)
(* stack of the type's slot functions; only the top frame runs.  The host  *)
(* may enter another slot function when the stack is empty or when the top *)
(* frame is inside a call that can run arbitrary code (a Py_DECREF).       *)
(***************************************************************************)
EXTENDS Integers, Sequences, FiniteSets, TLC

\* ---- bounds of the model ------------------------------------------------
MaxElems == 1      \* elements ever allocated
MaxDepth == 2      \* nesting depth of slot calls
MaxSupplied == 3   \* positional plus keyword arguments of one constructor call
ExtRefs == 1       \* references the rest of the interpreter holds on each object
MaxCoef == 5       \* largest coefficient of an operand of a binary operation
MaxModules == 2    \* module objects created from the PyModuleDef

\* ---- objects --------------------------------------------------------------
NULL == "NULL"
Zero == "zero"                      \* the int object PyLong_FromLong(0) returns
Objs == {Zero, "n1", "s1"}          \* n1: an int (1); s1: a str, no integer conversion
IsInt(o) == o \in {Zero, "n1"}
IntValue(o) == IF o = Zero THEN 0 ELSE 1
Elems == 1..MaxElems
Fields == {"a", "b"}
KwNames == {"a", "b", "c"}          \* keyword names a caller may write
VisitRets == {-1, 0, 1}                 \* what a visitproc may return

VARIABLES
    rc,        \* ob_refcnt of each object of Objs
    typeRc,    \* ob_refcnt of the heap type QuadraticElement2
    elem,      \* elem[e]: the quadraticelement2object e and its collector state
    stack,     \* the frames of the slot calls in progress, innermost last
    got,       \* the result of the last attribute access the caller still holds
    bin,       \* the operands and result of a binary operation on two elements
    mods        \* mods[m]: the module_state of module object m and the type it created

vars == <<rc, typeRc, elem, stack, got, bin, mods>>

\* ---- the object struct ------------------------------------------------
\* st: none (never allocated), allocated (tp_alloc returned), live (returned to
\* the caller), unreachable (reference count zero, dealloc entered), freed.
\* init, cleared, rel are history: which fields quadraticelement2_new has
\* assigned, whether tp_clear was entered, and how many times each field's
\* reference has been released.
quadraticelement2object ==
    [st |-> "none", a |-> NULL, b |-> NULL, tracked |-> FALSE,
     init |-> {}, cleared |-> FALSE, rel |-> [f \in Fields |-> 0]]

\* Once a reference has been released twice the object it counted may be gone
\* and what the program does next is undefined: no further step is modelled.
OverReleased == \E e \in Elems, f \in Fields : elem[e].rel[f] > 1

Top == stack[Len(stack)]
Pop == SubSeq(stack, 1, Len(stack) - 1)
SetTop(f) == [stack EXCEPT ![Len(stack)] = f]
Running(op, pc) == ~OverReleased /\ stack # <<>> /\ Top.op = op /\ Top.pc = pc
Busy(e) == \E i \in 1..Len(stack) : stack[i].e = e

Py_INCREF(r, o) == [r EXCEPT ![o] = @ + 1]
Py_DECREF(r, o) == [r EXCEPT ![o] = @ - 1]

NoResult == [e |-> 0, f |-> NULL, val |-> NULL]

\* ---- the module state ----------------------------------------------------
\* phase: created (state allocated and zeroed, module_exec not yet run), exec
\* (inside module_exec, after line 161), ready (module_exec returned 0),
\* failed (it returned -1), freed (m_free has run).  type is
\* state->QuadraticElement2_Type; trc the reference count of the type this
\* module created; dict whether the module's namespace holds it.  exec, rel
\* and last are history: how module_exec ended, how many times the state's
\* reference was released, and the last callback with its result.
Modules == 1..MaxModules
module_state ==
    [phase |-> "created", type |-> NULL, trc |-> 0, dict |-> FALSE,
     exec |-> "none", rel |-> 0, last |-> [op |-> "none", res |-> 0]]

\* ---- operators on elements ---------------------------------------------
\* An operand: the identity of the element and the values of its fields.
Coefs == 0..MaxCoef
Operands == [id : {1, 2}, a : Coefs, b : Coefs]

\* What an operation hands back: an exception, a bool, or a new element
Result(kind, truth, id, a, b) == [kind |-> kind, truth |-> truth, id |-> id, a |-> a, b |-> b]
NoOut == Result("none", FALSE, 0, 0, 0)
TypeError == Result("TypeError", FALSE, 0, 0, 0)
Bool(t) == Result("bool", t, 0, 0, 0)
NoBinary == [op |-> "none", x |-> [id |-> 1, a |-> 0, b |-> 0],
             y |-> [id |-> 1, a |-> 0, b |-> 0], out |-> NoOut]

\* lines 105-140: the slots the type installs (every other entry is commented out)
quadraticelement2_slots ==
    {"Py_tp_dealloc", "Py_tp_traverse", "Py_tp_clear", "Py_tp_members", "Py_tp_new"}

\* x + y, x * y: the interpreter calls the number slot of the operands' type;
\* with no such slot on either side it raises TypeError (unsupported operand).
binary_op(slot, x, y) ==
    IF slot \in quadraticelement2_slots THEN Result(slot, FALSE, 0, 0, 0) ELSE TypeError

\* x == y: the interpreter calls tp_richcompare; a type that installs none
\* inherits object's, which answers by identity.
PyObject_RichCompare(x, y) ==
    IF "Py_tp_richcompare" \in quadraticelement2_slots
    THEN Result("Py_tp_richcompare", FALSE, 0, 0, 0)
    ELSE Bool(x.id = y.id)

Init ==
    /\ rc = [o \in Objs |-> ExtRefs]
    /\ typeRc = ExtRefs
    /\ elem = [e \in Elems |-> quadraticelement2object]
    /\ stack = <<>>
    /\ got = NoResult
    /\ bin = NoBinary
    /\ mods = [m \in Modules |-> module_state]

\* ---- when the host may enter a slot function ----------------------------
\* A frame is at a call-out point when the statement it last executed was a
\* Py_DECREF / Py_XDECREF / Py_CLEAR, whose destructor may run arbitrary code.
CallOut(f) ==
    \/ f.op = "clear" /\ f.pc \in {"clear_b", "ret"}
    \/ f.op = "dealloc" /\ f.pc \in {"decref_b", "free", "ret"}

\* An attribute access that raised: the exception holds no reference to an
\* element or an integer, and the caller handles it before its next call.
ExceptionPending == got.val \in {"AttributeError", "readonly"}

\* The interpreter calls the constructor, or drops the last reference to an
\* element, from its main loop.
HostCanCall == ~OverReleased /\ ~ExceptionPending /\ stack = <<>>

\* A collection (tp_traverse, tp_clear) may also start inside a call-out.
CollectorCanCall ==
    /\ ~OverReleased
    /\ ~ExceptionPending
    /\ IF stack = <<>> THEN TRUE ELSE Len(stack) < MaxDepth /\ CallOut(Top)

\* ---- quadraticelement2_new ----------------------------------------------
kwlist == <<"a", "b">>

\* PyArg_ParseTupleAndKeywords(args, kwds, "|OO", kwlist, &a, &b): at most
\* Len(kwlist) arguments, every keyword one of kwlist and not also given by
\* position; "O" stores the object as it is (a borrowed reference).
ParseOk(args, kwds) ==
    /\ Len(args) + Cardinality(DOMAIN kwds) <= Len(kwlist)
    /\ \A k \in DOMAIN kwds : \E i \in (Len(args) + 1)..Len(kwlist) : kwlist[i] = k

ParseArg(args, kwds, i) ==
    IF i <= Len(args) THEN args[i]
    ELSE IF kwlist[i] \in DOMAIN kwds THEN kwds[kwlist[i]]
    ELSE NULL

\* What the caller wrote for parameter `name` (position i): history only
Supplied(args, kwds, name, i) ==
    IF name \in DOMAIN kwds THEN kwds[name]
    ELSE IF Len(args) >= i THEN args[i] ELSE NULL

NewFrame(args, kwds) ==
    [op |-> "new", e |-> 0,
     pc |-> IF ParseOk(args, kwds) THEN "default_a" ELSE "fail",
     exc |-> IF ParseOk(args, kwds) THEN "none" ELSE "TypeError",
     a |-> IF ParseOk(args, kwds) THEN ParseArg(args, kwds, 1) ELSE NULL,
     b |-> IF ParseOk(args, kwds) THEN ParseArg(args, kwds, 2) ELSE NULL,
     sup |-> [a |-> Supplied(args, kwds, "a", 1), b |-> Supplied(args, kwds, "b", 2)],
     rc0 |-> rc, typeRc0 |-> typeRc,
     el0 |-> {e \in Elems : elem[e].st # "none"}]

\* lines 27-36: entry and argument parsing
NewCall ==
    /\ HostCanCall
    /\ \E e \in Elems : elem[e].st = "none"
    /\ \E n \in 0..MaxSupplied, dom \in SUBSET KwNames :
         /\ n + Cardinality(dom) <= MaxSupplied
         /\ \E args \in [1..n -> Objs], kwds \in [dom -> Objs] :
              stack' = Append(stack, NewFrame(args, kwds))
    /\ UNCHANGED <<rc, typeRc, elem, got, bin, mods>>

\* lines 37-44
NewDefaultA ==
    /\ Running("new", "default_a")
    /\ IF Top.a = NULL
       THEN \/ /\ rc' = Py_INCREF(rc, Zero)          \* PyLong_FromLong(0): new reference
               /\ stack' = SetTop([Top EXCEPT !.a = Zero, !.pc = "default_b"])
            \/ /\ rc' = rc                            \* PyLong_FromLong failed
               /\ stack' = SetTop([Top EXCEPT !.pc = "fail", !.exc = "MemoryError"])
       ELSE /\ rc' = Py_INCREF(rc, Top.a)
            /\ stack' = SetTop([Top EXCEPT !.pc = "default_b"])
    /\ UNCHANGED <<typeRc, elem, got, bin, mods>>

\* Variant: line 48 (Py_DECREF(a)) left out of the error exit
NewDefaultB_NoRelease ==
    /\ Running("new", "default_b")
    /\ IF Top.b = NULL
       THEN \/ /\ rc' = Py_INCREF(rc, Zero)
               /\ stack' = SetTop([Top EXCEPT !.b = Zero, !.pc = "alloc"])
            \/ /\ rc' = rc
               /\ stack' = SetTop([Top EXCEPT !.pc = "fail", !.exc = "MemoryError"])
       ELSE /\ rc' = Py_INCREF(rc, Top.b)
            /\ stack' = SetTop([Top EXCEPT !.pc = "alloc"])
    /\ UNCHANGED <<typeRc, elem, got, bin, mods>>

\* lines 45-53
NewDefaultB ==
    /\ Running("new", "default_b")
    /\ IF Top.b = NULL
       THEN \/ /\ rc' = Py_INCREF(rc, Zero)
               /\ stack' = SetTop([Top EXCEPT !.b = Zero, !.pc = "alloc"])
            \/ /\ rc' = Py_DECREF(rc, Top.a)
               /\ stack' = SetTop([Top EXCEPT !.pc = "fail", !.exc = "MemoryError"])
       ELSE /\ rc' = Py_INCREF(rc, Top.b)
            /\ stack' = SetTop([Top EXCEPT !.pc = "alloc"])
    /\ UNCHANGED <<typeRc, elem, got, bin, mods>>

\* type->tp_alloc(type, 0) for a heap type with Py_TPFLAGS_HAVE_GC: zeroed
\* memory, a reference on the type, tracked by the collector.
tp_alloc(o) == [o EXCEPT !.st = "allocated", !.a = NULL, !.b = NULL, !.tracked = TRUE]

NextElem == CHOOSE e \in Elems : elem[e].st = "none" /\ \A d \in Elems : elem[d].st = "none" => e <= d

\* lines 55-60
NewAlloc ==
    /\ Running("new", "alloc")
    /\ \/ /\ elem' = [elem EXCEPT ![NextElem] = tp_alloc(@)]
          /\ typeRc' = typeRc + 1
          /\ stack' = SetTop([Top EXCEPT !.e = NextElem, !.pc = "bind_a"])
          /\ UNCHANGED <<rc, got, bin, mods>>
       \/ /\ rc' = Py_DECREF(Py_DECREF(rc, Top.a), Top.b)
          /\ stack' = SetTop([Top EXCEPT !.pc = "fail", !.exc = "MemoryError"])
          /\ UNCHANGED <<typeRc, elem, got, bin, mods>>

\* Variant: line 62 left out
NewBindA_Skip ==
    /\ Running("new", "bind_a")
    /\ stack' = SetTop([Top EXCEPT !.pc = "bind_b"])
    /\ UNCHANGED <<rc, typeRc, elem, got, bin, mods>>

\* Variant: line 62 written as qe->a = b
NewBindA_Swap ==
    /\ Running("new", "bind_a")
    /\ elem' = [elem EXCEPT ![Top.e].a = Top.b, ![Top.e].init = @ \cup {"a"}]
    /\ stack' = SetTop([Top EXCEPT !.pc = "bind_b"])
    /\ UNCHANGED <<rc, typeRc, got, bin, mods>>

\* line 62
NewBindA ==
    /\ Running("new", "bind_a")
    /\ elem' = [elem EXCEPT ![Top.e].a = Top.a, ![Top.e].init = @ \cup {"a"}]
    /\ stack' = SetTop([Top EXCEPT !.pc = "bind_b"])
    /\ UNCHANGED <<rc, typeRc, got, bin, mods>>

\* Variant: line 63 left out
NewBindB_Skip ==
    /\ Running("new", "bind_b")
    /\ stack' = SetTop([Top EXCEPT !.pc = "ret"])
    /\ UNCHANGED <<rc, typeRc, elem, got, bin, mods>>

\* line 63
NewBindB ==
    /\ Running("new", "bind_b")
    /\ elem' = [elem EXCEPT ![Top.e].b = Top.b, ![Top.e].init = @ \cup {"b"}]
    /\ stack' = SetTop([Top EXCEPT !.pc = "ret"])
    /\ UNCHANGED <<rc, typeRc, got, bin, mods>>

\* line 64: the caller receives the element
NewReturn ==
    /\ Running("new", "ret")
    /\ elem' = [elem EXCEPT ![Top.e].st = "live"]
    /\ stack' = Pop
    /\ UNCHANGED <<rc, typeRc, got, bin, mods>>

\* lines 35, 40, 49, 59: return NULL with the exception set
NewReturnNull ==
    /\ Running("new", "fail")
    /\ stack' = Pop
    /\ UNCHANGED <<rc, typeRc, elem, got, bin, mods>>

\* ---- quadraticelement2_dealloc ----------------------------------------
\* Variant: line 72 (PyObject_GC_UnTrack) left out
PyObject_GC_UnTrack_Skip(o) == o

\* PyObject_GC_UnTrack(qe)
PyObject_GC_UnTrack(o) == [o EXCEPT !.tracked = FALSE]

\* Py_XDECREF(qe->f): the field keeps its (now unowned) pointer
XDecRefField(o, f) ==
    IF o[f] = NULL THEN o ELSE [o EXCEPT !.rel[f] = @ + 1]

\* The reference counts after a Py_XDECREF / Py_CLEAR of field f of o
ReleaseRc(o, f) == IF o[f] = NULL THEN rc ELSE Py_DECREF(rc, o[f])

\* tp->tp_free(qe): PyObject_GC_Del unlinks the object and frees its memory
tp_free(o) == [o EXCEPT !.st = "freed", !.tracked = FALSE]

\* Variant: tp_free moved before the two Py_XDECREFs
DeallocAfter_FreeFirst(pc) ==
    CASE pc = "untrack" -> "free"
      [] pc = "free" -> "decref_a"
      [] pc = "decref_a" -> "decref_b"
      [] pc = "decref_b" -> "decref_tp"
      [] pc = "decref_tp" -> "ret"

\* The statement that follows each statement of quadraticelement2_dealloc
DeallocAfter(pc) ==
    CASE pc = "untrack" -> "decref_a"
      [] pc = "decref_a" -> "decref_b"
      [] pc = "decref_b" -> "free"
      [] pc = "free" -> "decref_tp"
      [] pc = "decref_tp" -> "ret"

\* The host calls tp_dealloc when the element's reference count reaches zero:
\* the element was returned to a caller and no call in progress holds it.
DeallocCall(e) ==
    /\ HostCanCall
    /\ elem[e].st = "live"
    /\ ~Busy(e)
    /\ elem' = [elem EXCEPT ![e].st = "unreachable"]
    /\ stack' = Append(stack, [op |-> "dealloc", e |-> e, pc |-> "untrack", tp |-> NULL])
    /\ UNCHANGED <<rc, typeRc, got, bin, mods>>

\* lines 70-72
DeallocUntrack ==
    /\ Running("dealloc", "untrack")
    /\ elem' = [elem EXCEPT ![Top.e] = PyObject_GC_UnTrack(@)]
    /\ stack' = SetTop([Top EXCEPT !.tp = "type", !.pc = DeallocAfter("untrack")])
    /\ UNCHANGED <<rc, typeRc, got, bin, mods>>

\* line 73
DeallocDecrefA ==
    /\ Running("dealloc", "decref_a")
    /\ rc' = ReleaseRc(elem[Top.e], "a")
    /\ elem' = [elem EXCEPT ![Top.e] = XDecRefField(@, "a")]
    /\ stack' = SetTop([Top EXCEPT !.pc = DeallocAfter("decref_a")])
    /\ UNCHANGED <<typeRc, got, bin, mods>>

\* line 74
DeallocDecrefB ==
    /\ Running("dealloc", "decref_b")
    /\ rc' = ReleaseRc(elem[Top.e], "b")
    /\ elem' = [elem EXCEPT ![Top.e] = XDecRefField(@, "b")]
    /\ stack' = SetTop([Top EXCEPT !.pc = DeallocAfter("decref_b")])
    /\ UNCHANGED <<typeRc, got, bin, mods>>

\* line 75
DeallocFree ==
    /\ Running("dealloc", "free")
    /\ elem' = [elem EXCEPT ![Top.e] = tp_free(@)]
    /\ stack' = SetTop([Top EXCEPT !.pc = DeallocAfter("free")])
    /\ UNCHANGED <<rc, typeRc, got, bin, mods>>

\* Variant: line 76 (Py_DECREF(tp)) left out
DeallocDecrefType_Skip ==
    /\ Running("dealloc", "decref_tp")
    /\ Top.tp # NULL
    /\ stack' = SetTop([Top EXCEPT !.pc = DeallocAfter("decref_tp")])
    /\ UNCHANGED <<rc, typeRc, elem, got, bin, mods>>

\* line 76: Py_DECREF(tp), through the pointer captured at line 71
DeallocDecrefType ==
    /\ Running("dealloc", "decref_tp")
    /\ Top.tp # NULL
    /\ typeRc' = typeRc - 1
    /\ stack' = SetTop([Top EXCEPT !.pc = DeallocAfter("decref_tp")])
    /\ UNCHANGED <<rc, elem, got, bin, mods>>

\* line 77
DeallocReturn ==
    /\ Running("dealloc", "ret")
    /\ stack' = Pop
    /\ UNCHANGED <<rc, typeRc, elem, got, bin, mods>>

\* ---- quadraticelement2_traverse ---------------------------------------
\* Py_VISIT(x): if (x) { int vret = visit(x, arg); if (vret) return vret; }
\* Variant: the visitor's result ignored
Py_VISIT_Continue(f, what, x, v, next) ==
    IF x = NULL THEN [f EXCEPT !.pc = next]
    ELSE [f EXCEPT !.vis = Append(@, <<what, x>>), !.pc = next]

\* The frame after Py_VISIT of `x` (named `what`) when the visitor answers v.
Py_VISIT(f, what, x, v, next) ==
    IF x = NULL THEN [f EXCEPT !.pc = next]
    ELSE IF v # 0 THEN [f EXCEPT !.vis = Append(@, <<what, x>>), !.res = v, !.pc = "ret"]
    ELSE [f EXCEPT !.vis = Append(@, <<what, x>>), !.pc = next]

\* The collector (or gc.get_referents) calls tp_traverse on a tracked object.
TraverseCall(e) ==
    /\ CollectorCanCall
    /\ elem[e].tracked
    /\ stack' = Append(stack, [op |-> "traverse", e |-> e, pc |-> "visit_tp",
                               vis |-> <<>>, res |-> 0, rets |-> <<>>])
    /\ UNCHANGED <<rc, typeRc, elem, got, bin, mods>>

\* line 83
TraverseType ==
    /\ Running("traverse", "visit_tp")
    /\ \E v \in VisitRets :
         stack' = SetTop(Py_VISIT([Top EXCEPT !.rets = Append(@, v)], "type", "type", v, "visit_a"))
    /\ UNCHANGED <<rc, typeRc, elem, got, bin, mods>>

\* line 84
TraverseA ==
    /\ Running("traverse", "visit_a")
    /\ \E v \in VisitRets :
         stack' = SetTop(Py_VISIT([Top EXCEPT !.rets = IF elem[Top.e].a = NULL THEN @ ELSE Append(@, v)],
                                  "a", elem[Top.e].a, v, "visit_b"))
    /\ UNCHANGED <<rc, typeRc, elem, got, bin, mods>>

\* Variant: line 85 (Py_VISIT(qe->b)) left out
TraverseB_Skip ==
    /\ Running("traverse", "visit_b")
    /\ stack' = SetTop([Top EXCEPT !.pc = "ret"])
    /\ UNCHANGED <<rc, typeRc, elem, got, bin, mods>>

\* lines 85-86
TraverseB ==
    /\ Running("traverse", "visit_b")
    /\ \E v \in VisitRets :
         stack' = SetTop(Py_VISIT([Top EXCEPT !.rets = IF elem[Top.e].b = NULL THEN @ ELSE Append(@, v)],
                                  "b", elem[Top.e].b, v, "ret"))
    /\ UNCHANGED <<rc, typeRc, elem, got, bin, mods>>

TraverseReturn ==
    /\ Running("traverse", "ret")
    /\ stack' = Pop
    /\ UNCHANGED <<rc, typeRc, elem, got, bin, mods>>

\* ---- quadraticelement2_clear ------------------------------------------
\* Variant: Py_DECREF(qe->f) in place of Py_CLEAR(qe->f)
ClearField_NoNull(o, f) ==
    IF o[f] = NULL THEN o ELSE [o EXCEPT !.rel[f] = @ + 1]

\* Py_CLEAR(qe->f): tmp = qe->f; if (tmp) { qe->f = NULL; Py_DECREF(tmp); }
ClearField(o, f) ==
    IF o[f] = NULL THEN o ELSE [o EXCEPT ![f] = NULL, !.rel[f] = @ + 1]

\* The collector calls tp_clear on a tracked object.
ClearCall(e) ==
    /\ CollectorCanCall
    /\ elem[e].tracked
    /\ elem' = [elem EXCEPT ![e].cleared = TRUE]
    /\ stack' = Append(stack, [op |-> "clear", e |-> e, pc |-> "clear_a", res |-> -1,
                               in |-> [f \in Fields |-> elem[e][f]], rel0 |-> elem[e].rel])
    /\ UNCHANGED <<rc, typeRc, got, bin, mods>>

\* line 93
ClearA ==
    /\ Running("clear", "clear_a")
    /\ rc' = ReleaseRc(elem[Top.e], "a")
    /\ elem' = [elem EXCEPT ![Top.e] = ClearField(@, "a")]
    /\ stack' = SetTop([Top EXCEPT !.pc = "clear_b"])
    /\ UNCHANGED <<typeRc, got, bin, mods>>

\* Variant: line 94 (Py_CLEAR(qe->b)) left out
ClearB_Skip ==
    /\ Running("clear", "clear_b")
    /\ stack' = SetTop([Top EXCEPT !.pc = "ret", !.res = 0])
    /\ UNCHANGED <<rc, typeRc, elem, got, bin, mods>>

\* lines 94-95
ClearB ==
    /\ Running("clear", "clear_b")
    /\ rc' = ReleaseRc(elem[Top.e], "b")
    /\ elem' = [elem EXCEPT ![Top.e] = ClearField(@, "b")]
    /\ stack' = SetTop([Top EXCEPT !.pc = "ret", !.res = 0])
    /\ UNCHANGED <<typeRc, got, bin, mods>>

ClearReturn ==
    /\ Running("clear", "ret")
    /\ stack' = Pop
    /\ UNCHANGED <<rc, typeRc, elem, got, bin, mods>>

\* ---- quadraticelement2_members: read-only attributes a and b ---------
\* Py_T_OBJECT_EX: AttributeError when the slot is NULL, else a new reference
ReadField(e, f) ==
    /\ HostCanCall
    /\ elem[e].st = "live"
    /\ got = NoResult
    /\ IF elem[e][f] = NULL
       THEN /\ got' = [e |-> e, f |-> f, val |-> "AttributeError"]
            /\ rc' = rc
       ELSE /\ got' = [e |-> e, f |-> f, val |-> elem[e][f]]
            /\ rc' = Py_INCREF(rc, elem[e][f])
    /\ UNCHANGED <<typeRc, elem, stack, bin, mods>>

\* The caller drops the result of the read
DropResult ==
    /\ ~OverReleased
    /\ stack = <<>>
    /\ got # NoResult
    /\ rc' = IF got.val \in Objs THEN Py_DECREF(rc, got.val) ELSE rc
    /\ got' = NoResult
    /\ UNCHANGED <<typeRc, elem, stack, bin, mods>>

\* Variant: the members declared without Py_READONLY
MemberFlags_Writable(f) == "0"

\* lines 99-100: the flags of member f
MemberFlags(f) == "Py_READONLY"

\* Attribute assignment or deletion (v = NULL) through the member descriptor:
\* a Py_READONLY member raises AttributeError; otherwise the slot takes v
\* (a new reference) and the old value is released.
WriteField(e, f, v) ==
    /\ HostCanCall
    /\ elem[e].st = "live"
    /\ got = NoResult
    /\ IF MemberFlags(f) = "Py_READONLY"
       THEN /\ got' = [e |-> e, f |-> f, val |-> "readonly"]
            /\ UNCHANGED <<rc, elem>>
       ELSE /\ got' = [e |-> e, f |-> f, val |-> "written"]
            /\ elem' = [elem EXCEPT ![e][f] = v]
            /\ rc' = LET r == IF v = NULL THEN rc ELSE Py_INCREF(rc, v)
                     IN IF elem[e][f] = NULL THEN r ELSE Py_DECREF(r, elem[e][f])
    /\ UNCHANGED <<typeRc, stack, bin, mods>>

\* ---- the program ------------------------------------------------------
Next ==
    \/ NewCall \/ NewDefaultA \/ NewDefaultB \/ NewAlloc
    \/ NewBindA \/ NewBindB \/ NewReturn \/ NewReturnNull
    \/ \E e \in Elems : DeallocCall(e)
    \/ DeallocUntrack \/ DeallocDecrefA \/ DeallocDecrefB
    \/ DeallocFree \/ DeallocDecrefType \/ DeallocReturn
    \/ \E e \in Elems : TraverseCall(e)
    \/ TraverseType \/ TraverseA \/ TraverseB \/ TraverseReturn
    \/ \E e \in Elems : ClearCall(e)
    \/ ClearA \/ ClearB \/ ClearReturn
    \/ \E e \in Elems, f \in Fields : ReadField(e, f)
    \/ \E e \in Elems, f \in Fields, v \in Objs \cup {NULL} : WriteField(e, f, v)
    \/ DropResult

\* The program under CPython: tp_clear is only ever called by the collector,
\* on tracked objects.
Spec == Init /\ [][Next]_vars

\* ---- tp_clear called on an element that is being finalized ------------
\* A caller other than the collector invokes quadraticelement2_clear on the
\* element of a dealloc in progress, from inside one of its call-outs.
ClearCallFinalizing(e) ==
    /\ ~OverReleased
    /\ stack # <<>>
    /\ Len(stack) < MaxDepth
    /\ Top.op = "dealloc" /\ Top.e = e /\ CallOut(Top)
    /\ elem[e].st = "unreachable"
    /\ elem' = [elem EXCEPT ![e].cleared = TRUE]
    /\ stack' = Append(stack, [op |-> "clear", e |-> e, pc |-> "clear_a", res |-> -1,
                               in |-> [f \in Fields |-> elem[e][f]], rel0 |-> elem[e].rel])
    /\ UNCHANGED <<rc, typeRc, got, bin, mods>>

NextFinalizing ==
    \/ Next
    \/ \E e \in Elems : ClearCallFinalizing(e)

SpecFinalizing == Init /\ [][NextFinalizing]_vars

\* ---- binary operations on two elements ---------------------------------
\* The operands are two elements construction has returned: the same element
\* twice, or two separately constructed ones with any field values.
InitOps ==
    /\ rc = [o \in Objs |-> ExtRefs]
    /\ typeRc = ExtRefs
    /\ elem = [e \in Elems |-> quadraticelement2object]
    /\ stack = <<>>
    /\ got = NoResult
    /\ \E x \in Operands, y \in Operands :
          /\ x.id = 1
          /\ (y.id = x.id) => y = x
          /\ bin = [op |-> "none", x |-> x, y |-> y, out |-> NoOut]
    /\ mods = [m \in Modules |-> module_state]

BinaryAdd ==
    /\ bin.op = "none"
    /\ bin' = [bin EXCEPT !.op = "add", !.out = binary_op("Py_nb_add", bin.x, bin.y)]
    /\ UNCHANGED <<rc, typeRc, elem, stack, got, mods>>

BinaryMultiply ==
    /\ bin.op = "none"
    /\ bin' = [bin EXCEPT !.op = "multiply", !.out = binary_op("Py_nb_multiply", bin.x, bin.y)]
    /\ UNCHANGED <<rc, typeRc, elem, stack, got, mods>>

CompareEqual ==
    /\ bin.op = "none"
    /\ bin' = [bin EXCEPT !.op = "eq", !.out = PyObject_RichCompare(bin.x, bin.y)]
    /\ UNCHANGED <<rc, typeRc, elem, stack, got, mods>>

NextOps == BinaryAdd \/ BinaryMultiply \/ CompareEqual

SpecOps == InitOps /\ [][NextOps]_vars

\* ---- module_exec, module_traverse, module_clear, module_free ------------
\* As for elements: nothing is modelled after a reference was released twice.
ModuleOverReleased == \E m \in Modules : mods[m].rel > 1

\* lines 156-161: PyType_FromModuleAndSpec returns a new reference or NULL
ModuleExec_CreateType(m) ==
    /\ ~ModuleOverReleased
    /\ mods[m].phase = "created"
    /\ \/ mods' = [mods EXCEPT ![m].type = "type", ![m].trc = 1, ![m].phase = "exec"]
       \/ mods' = [mods EXCEPT ![m].type = NULL, ![m].phase = "failed",
                                ![m].exec = "fail_create",
                                ![m].last = [op |-> "exec", res |-> -1]]
    /\ UNCHANGED <<rc, typeRc, elem, stack, got, bin>>

\* lines 162-166: PyModule_AddType stores a reference of its own in the
\* module's namespace, or fails and stores none
ModuleExec_AddType(m) ==
    /\ ~ModuleOverReleased
    /\ mods[m].phase = "exec"
    /\ \/ mods' = [mods EXCEPT ![m].trc = @ + 1, ![m].dict = TRUE, ![m].phase = "ready",
                                ![m].exec = "ok", ![m].last = [op |-> "exec", res |-> 0]]
       \/ mods' = [mods EXCEPT ![m].phase = "failed", ![m].exec = "fail_add",
                                ![m].last = [op |-> "exec", res |-> -1]]
    /\ UNCHANGED <<rc, typeRc, elem, stack, got, bin>>

\* lines 174-180: Py_VISIT(state->QuadraticElement2_Type); return 0
module_traverse(m) ==
    /\ ~ModuleOverReleased
    /\ mods[m].phase # "freed"
    /\ \E v \in VisitRets :
          mods' = [mods EXCEPT ![m].last =
                      [op |-> "traverse", res |-> IF mods[m].type = NULL THEN 0 ELSE v]]
    /\ UNCHANGED <<rc, typeRc, elem, stack, got, bin>>

\* Variant: Py_DECREF in place of Py_CLEAR at line 186
Py_CLEAR_Type_NoNull(ms) ==
    IF ms.type = NULL THEN ms ELSE [ms EXCEPT !.trc = @ - 1, !.rel = @ + 1]

\* line 186: Py_CLEAR(state->QuadraticElement2_Type)
Py_CLEAR_Type(ms) ==
    IF ms.type = NULL THEN ms ELSE [ms EXCEPT !.type = NULL, !.trc = @ - 1, !.rel = @ + 1]

\* lines 182-188; the collector calls it between, not inside, other calls
module_clear(m) ==
    /\ ~ModuleOverReleased
    /\ mods[m].phase \in {"created", "ready", "failed"}
    /\ mods' = [mods EXCEPT ![m] = [Py_CLEAR_Type(@) EXCEPT !.last = [op |-> "clear", res |-> 0]]]
    /\ UNCHANGED <<rc, typeRc, elem, stack, got, bin>>

\* lines 190-194: m_free calls module_clear; the module object is gone after
module_free(m) ==
    /\ ~ModuleOverReleased
    /\ mods[m].phase \in {"created", "ready", "failed"}
    /\ mods' = [mods EXCEPT ![m] = [Py_CLEAR_Type(@) EXCEPT !.phase = "freed",
                                                             !.last = [op |-> "free", res |-> 0]]]
    /\ UNCHANGED <<rc, typeRc, elem, stack, got, bin>>

NextModule ==
    \/ \E m \in Modules : ModuleExec_CreateType(m)
    \/ \E m \in Modules : ModuleExec_AddType(m)
    \/ \E m \in Modules : module_traverse(m)
    \/ \E m \in Modules : module_clear(m)
    \/ \E m \in Modules : module_free(m)

SpecModule == Init /\ [][NextModule]_vars

\* ======================================================================
\* Properties
\* ======================================================================
Frames(op, pc) == {i \in 1..Len(stack) : stack[i].op = op /\ stack[i].pc = pc}
Allocated == {e \in Elems : elem[e].st # "none"}
InitialRc == [o \in Objs |-> ExtRefs]

\* C1: every failing exit of quadraticelement2_new (parse failure, default
\* zero for a or b not created, tp_alloc failure) has released every
\* reference the call acquired: all reference counts equal their values
\* before the call and the call left no element behind.
C1_FailedNewReleasesAll ==
    \A i \in Frames("new", "fail") :
        /\ rc = stack[i].rc0
        /\ typeRc = stack[i].typeRc0
        /\ stack[i].e = 0
        /\ Allocated = stack[i].el0

\* tp_alloc failed after a supplied a was INCREF'd and a default b was created
C1_Witness ==
    \E i \in Frames("new", "fail") :
        /\ stack[i].exc = "MemoryError"
        /\ stack[i].sup.a = "n1" /\ stack[i].a = "n1"
        /\ stack[i].sup.b = NULL /\ stack[i].b = Zero

\* C2: an element takes one reference to each of a and b at construction
\* and, over any sequence of traverse and clear calls followed by dealloc,
\* releases each exactly once (never twice at any point, once by the time it
\* is freed); when every element is freed and nothing else is in progress
\* every reference count is back at its initial value.
C2_ReleasedExactlyOnce ==
    /\ \A e \in Elems, f \in Fields : elem[e].rel[f] <= 1
    /\ \A e \in Elems : elem[e].st = "freed" =>
          /\ elem[e].init = Fields
          /\ \A f \in Fields : elem[e].rel[f] = 1
    /\ (stack = <<>> /\ got = NoResult /\ \A e \in Elems : elem[e].st \in {"none", "freed"})
          => rc = InitialRc

\* an element that was cleared and then deallocated
C2_Witness ==
    /\ stack = <<>> /\ got = NoResult
    /\ \E e \in Elems : elem[e].st = "freed" /\ elem[e].cleared

\* C3: tp_clear called on an element whose dealloc is in progress never
\* releases the reference of a or of b a second time.
C3_NoDoubleRelease ==
    \A e \in Elems, f \in Fields : elem[e].rel[f] <= 1

\* C4: quadraticelement2_clear, entered with any of the fields already
\* cleared, releases exactly the fields that were still bound at entry,
\* leaves both fields NULL and returns 0; entered with both fields clear it
\* releases nothing.
C4_ClearIdempotent ==
    \A i \in Frames("clear", "ret") :
        /\ stack[i].res = 0
        /\ \A f \in Fields :
              /\ elem[stack[i].e][f] = NULL
              /\ elem[stack[i].e].rel[f] =
                    stack[i].rel0[f] + (IF stack[i].in[f] = NULL THEN 0 ELSE 1)

\* a clear that was entered with a already cleared and b still bound
C4_Witness ==
    \E i \in Frames("clear", "ret") :
        stack[i].in.a = NULL /\ stack[i].in.b # NULL

\* C5: a constructor call with an argument that has no integer conversion
\* fails, so every element the constructor returns has integers in both fields.
C5_NonIntegerRejected ==
    \A i \in Frames("new", "ret") :
        /\ IsInt(elem[stack[i].e].a)
        /\ IsInt(elem[stack[i].e].b)

\* C6 (as stated): every element returned by construction and not freed has
\* both fields present, whatever callbacks have run on it.
C6_FieldsAlwaysPresent ==
    \A e \in Elems : elem[e].st \in {"live", "unreachable"} =>
        \A f \in Fields : elem[e][f] # NULL

\* C6 (amended): every element returned by construction and not freed has
\* both fields present as long as tp_clear has not been called on it; reads
\* and traverse never make a field absent.
C6_FieldsPresentUntilClear ==
    \A e \in Elems : (elem[e].st \in {"live", "unreachable"} /\ ~elem[e].cleared) =>
        \A f \in Fields : elem[e][f] # NULL

\* a live element after a read, with a traverse of it finished
C6_Witness ==
    /\ got.val \in Objs
    /\ \E i \in Frames("traverse", "ret") :
          /\ elem[stack[i].e].st = "live"
          /\ ~elem[stack[i].e].cleared
          /\ got.e = stack[i].e

\* C7: at the successful return of quadraticelement2_new each field holds
\* the object supplied for it, or the integer zero when none was supplied,
\* independently of the other field.
C7_DefaultsToZero ==
    \A i \in Frames("new", "ret") :
        \A f \in Fields :
            elem[stack[i].e][f] =
                IF stack[i].sup[f] = NULL THEN Zero ELSE stack[i].sup[f]

\* construct(b = s1): a defaults to zero, b is the supplied object
C7_Witness ==
    \E i \in Frames("new", "ret") :
        /\ stack[i].sup.a = NULL /\ stack[i].sup.b = "s1"
        /\ elem[stack[i].e].a = Zero /\ IntValue(elem[stack[i].e].a) = 0
        /\ elem[stack[i].e].b = "s1"

\* C8: outside the two field assignments of quadraticelement2_new an
\* allocated element has had both fields assigned by construction, and at
\* every failing exit of construction no element of the call exists.
C8_NeverHalfBound ==
    /\ \A e \in Allocated :
          (~\E i \in 1..Len(stack) :
               /\ stack[i].op = "new" /\ stack[i].e = e
               /\ stack[i].pc \in {"bind_a", "bind_b"})
          => elem[e].init = Fields
    /\ \A i \in Frames("new", "fail") :
          /\ stack[i].e = 0
          /\ \A e \in Elems : elem[e].st # "allocated"

\* an element just past the two assignments, not yet returned
C8_Witness ==
    \E i \in Frames("new", "ret") :
        elem[stack[i].e].st = "allocated" /\ elem[stack[i].e].init = Fields

\* The lifecycle position of an element
Rank(o) ==
    CASE o.st = "none" -> 0
      [] o.st = "allocated" /\ o.init # Fields -> 1
      [] o.st = "allocated" /\ o.init = Fields -> 2     \* fields-bound
      [] o.st = "live" -> 3
      [] o.st = "unreachable" -> 4
      [] o.st = "freed" -> 5

FramesOn(s, e) == Cardinality({i \in 1..Len(s) : s[i].e = e})

\* C9: an element moves through allocated, fields-bound, live, unreachable,
\* freed one step at a time and never backwards; once freed, no step changes
\* it, enters a slot function on it or reads it.
C9_Lifecycle ==
    [][\A e \in Elems :
          /\ Rank(elem'[e]) \in {Rank(elem[e]), Rank(elem[e]) + 1}
          /\ elem[e].st = "freed" =>
                /\ elem'[e] = elem[e]
                /\ FramesOn(stack', e) <= FramesOn(stack, e)
                /\ (got' # got => got'.e # e)]_vars

\* an element that went through its whole lifecycle
C9_Witness ==
    /\ stack = <<>>
    /\ \E e \in Elems : elem[e].st = "freed"

\* C10: quadraticelement2_traverse visits each of a and b at most once, only
\* when bound and with the field's object; when every visitor call returned 0
\* it has visited each bound field exactly once and returns 0.
C10_TraverseVisitsOwned ==
    \A i \in Frames("traverse", "ret") :
        LET t == stack[i]
            Visits(f) == {k \in 1..Len(t.vis) : t.vis[k][1] = f}
        IN /\ \A f \in Fields :
                 /\ Cardinality(Visits(f)) <= 1
                 /\ \A k \in Visits(f) : t.vis[k][2] = elem[t.e][f]
           /\ (\A k \in 1..Len(t.rets) : t.rets[k] = 0) =>
                 /\ t.res = 0
                 /\ \A f \in Fields :
                       Cardinality(Visits(f)) = IF elem[t.e][f] = NULL THEN 0 ELSE 1

\* a traverse of a partially cleared element: a skipped, b visited
C10_Witness ==
    \E i \in Frames("traverse", "ret") :
        /\ stack[i].res = 0
        /\ elem[stack[i].e].a = NULL /\ elem[stack[i].e].b # NULL
        /\ stack[i].vis = <<<<"type", "type">>, <<"b", elem[stack[i].e].b>>>>

\* C11: a and b are read-only: the only steps that change a field of a live
\* element are the Py_CLEARs of tp_clear (the collector's, not the caller's);
\* every assignment or deletion through the attribute surface is rejected and
\* leaves the fields and all reference counts as they were.
C11_FieldsReadOnly ==
    [][/\ \A e \in Elems, f \in Fields :
             (elem[e].st = "live" /\ elem'[e][f] # elem[e][f]) =>
                 /\ elem'[e][f] = NULL
                 /\ stack # <<>> /\ Top.op = "clear" /\ Top.e = e
       /\ got'.val # "written"
       /\ (got' # got /\ got'.val = "readonly") =>
             /\ elem' = elem /\ rc' = rc /\ typeRc' = typeRc]_vars

\* an assignment to b of a live element was rejected
C11_Witness ==
    /\ got.val = "readonly" /\ got.f = "b"
    /\ elem[got.e].st = "live" /\ elem[got.e].b # NULL

\* References to integer object o held outside element fields: the caller's
\* own, the locals a and b of a constructor call that has not yet stored them
\* in the element, and the result of an attribute read.
FrameHolds(fr, o) ==
    IF fr.op # "new" THEN 0
    ELSE (IF fr.pc \in {"default_b", "alloc", "bind_a"} /\ fr.a = o THEN 1 ELSE 0)
       + (IF fr.pc \in {"alloc", "bind_a", "bind_b"} /\ fr.b = o THEN 1 ELSE 0)

RECURSIVE StackHolds(_, _)
StackHolds(i, o) == IF i = 0 THEN 0 ELSE FrameHolds(stack[i], o) + StackHolds(i - 1, o)

ExternalHolders(o) ==
    ExtRefs + StackHolds(Len(stack), o) + (IF got.val = o THEN 1 ELSE 0)

BoundFields(o) ==
    {ef \in Elems \X Fields : elem[ef[1]].st \notin {"none", "freed"} /\ elem[ef[1]][ef[2]] = o}

\* C15: in every reachable state each integer object's reference count is its
\* external holders plus the number of fields of not-yet-freed elements that
\* point to it, and is never negative.
C15_NoDanglingField ==
    \A o \in Objs :
        /\ rc[o] = ExternalHolders(o) + Cardinality(BoundFields(o))
        /\ rc[o] >= 0

\* C16: quadraticelement2_dealloc runs untrack, release a, release b, free,
\* release the type, in that order and with no other exit: once past the
\* first statement the element is untracked and the type pointer is captured;
\* each field is released exactly when its statement has run; the memory is
\* freed only after both releases; and no traverse or clear of the element
\* runs above a dealloc of it.
DeallocPcs == <<"untrack", "decref_a", "decref_b", "free", "decref_tp", "ret">>
DeallocPos(pc) == CHOOSE k \in 1..Len(DeallocPcs) : DeallocPcs[k] = pc

C16_DeallocOrder ==
    \A i \in 1..Len(stack) :
        stack[i].op = "dealloc" =>
            LET fr == stack[i]
                o  == elem[fr.e]
            IN /\ \E k \in 1..Len(DeallocPcs) : DeallocPcs[k] = fr.pc
               /\ (fr.pc = "untrack") => (fr.tp = NULL /\ i = Len(stack))
               /\ (fr.pc # "untrack") => (~o.tracked /\ fr.tp = "type")
               /\ (DeallocPos(fr.pc) <= 2 /\ o.a # NULL) => o.rel.a = 0
               /\ (DeallocPos(fr.pc) > 2) => o.rel.a = 1
               /\ (DeallocPos(fr.pc) <= 3 /\ o.b # NULL) => o.rel.b = 0
               /\ (DeallocPos(fr.pc) > 3) => o.rel.b = 1
               /\ (DeallocPos(fr.pc) <= 4) <=> (o.st = "unreachable")
               /\ (DeallocPos(fr.pc) > 4) <=> (o.st = "freed")
               /\ \A j \in (i + 1)..Len(stack) : stack[j].e # fr.e

\* dealloc has released a still-bound a and is about to release b
C16_Witness ==
    /\ stack # <<>> /\ Top.op = "dealloc" /\ Top.pc = "decref_b"
    /\ elem[Top.e].a # NULL /\ elem[Top.e].rel.a = 1
    /\ elem[Top.e].b # NULL /\ elem[Top.e].rel.b = 0
    /\ ~elem[Top.e].tracked

\* C17: the type's reference count is its initial value plus one for every
\* element allocated and not yet freed (plus one for a dealloc that has freed
\* the memory and not yet reached Py_DECREF(tp)); between calls that is the
\* initial value plus the number of not-yet-freed elements.  A failed
\* construction leaves the count as it found it, and the count stays above
\* the number of existing elements' worth of references, so the type outlives
\* them.
NotFreed == {e \in Elems : elem[e].st \in {"allocated", "live", "unreachable"}}

C17_TypeRefBalanced ==
    /\ typeRc = ExtRefs + Cardinality(NotFreed)
                  + Cardinality(Frames("dealloc", "decref_tp"))
    /\ (stack = <<>>) => typeRc = ExtRefs + Cardinality(NotFreed)
    /\ (NotFreed # {}) => typeRc - ExtRefs >= 1
    /\ \A i \in 1..Len(stack) :
          (stack[i].op = "new" /\ stack[i].pc = "fail") => typeRc = stack[i].typeRc0

\* an element was constructed and deallocated; the type's count is back
C17_Witness ==
    /\ stack = <<>>
    /\ \E e \in Elems : elem[e].st = "freed"
    /\ typeRc = ExtRefs

\* C19: quadraticelement2_traverse only observes: entering it, every one of
\* its steps and its return leave the element's fields and every reference
\* count as they were, whatever the fields hold; a visitor result other than
\* zero ends the traversal at once with that value as the result, and a
\* traversal that returns has visited nothing after a nonzero answer.
C19_TraversePure ==
    [][/\ ((stack # <<>> /\ Top.op = "traverse") \/
           (stack' # <<>> /\ stack'[Len(stack')].op = "traverse")) =>
              /\ rc' = rc /\ typeRc' = typeRc /\ elem' = elem /\ got' = got
       /\ (stack # <<>> /\ Top.op = "traverse" /\ Len(stack') = Len(stack)) =>
              LET new == stack'[Len(stack')]
              IN (new.rets # Top.rets /\ new.rets[Len(new.rets)] # 0) =>
                     /\ new.pc = "ret"
                     /\ new.res = new.rets[Len(new.rets)]
                     /\ Len(new.vis) = Len(Top.vis) + 1
       /\ (stack # <<>> /\ Top.op = "traverse" /\ Len(stack') < Len(stack)) =>
              /\ Top.pc = "ret"
              /\ Len(Top.vis) = Len(Top.rets)
              /\ \A k \in 1..(Len(Top.rets) - 1) : Top.rets[k] = 0
              /\ Top.res = IF Top.rets = <<>> THEN 0 ELSE Top.rets[Len(Top.rets)]]_vars

\* the visitor answered -1 for a: the traversal is at its return with -1 and
\* b, still bound, was not visited
C19_Witness ==
    /\ stack # <<>> /\ Top.op = "traverse" /\ Top.pc = "ret"
    /\ Top.res = -1
    /\ Len(Top.vis) = 2
    /\ elem[Top.e].b # NULL

\* C12: the sum of any two elements is a newly allocated element whose fields
\* are the sums of the operands' fields.
C12_AddFieldwise ==
    bin.op = "add" =>
        /\ bin.out.kind = "element"
        /\ bin.out.id \notin {bin.x.id, bin.y.id}
        /\ bin.out.a = bin.x.a + bin.y.a
        /\ bin.out.b = bin.x.b + bin.y.b

\* C13: the product of any two elements is a newly allocated element with
\* a = x.a*y.a + 2*(x.b*y.b) and b = x.a*y.b + y.a*x.b.
C13_MultiplyRule ==
    bin.op = "multiply" =>
        /\ bin.out.kind = "element"
        /\ bin.out.id \notin {bin.x.id, bin.y.id}
        /\ bin.out.a = bin.x.a * bin.y.a + 2 * (bin.x.b * bin.y.b)
        /\ bin.out.b = bin.x.a * bin.y.b + bin.y.a * bin.x.b

\* C14: two elements compare equal exactly when their a fields are equal and
\* their b fields are equal.
C14_EqualityStructural ==
    bin.op = "eq" =>
        /\ bin.out.kind = "bool"
        /\ bin.out.truth <=> (bin.x.a = bin.y.a /\ bin.x.b = bin.y.b)

\* C18: whatever module_exec, module_traverse, module_clear and module_free
\* have run, the module state's reference to the type was released at most
\* once, and exactly once when a type was created and the state no longer
\* holds it; the type's count is one per holder (the state, the module's
\* namespace); a freed module holds no type, so nothing leaks; a state in
\* which no type was created has released nothing.
C18_ModuleTypeReleasedOnce ==
    \A m \in Modules :
        LET ms == mods[m]
            created == ms.exec \in {"ok", "fail_add"} \/ ms.phase = "exec"
        IN /\ ms.rel <= 1
           /\ ms.trc = (IF ms.type # NULL THEN 1 ELSE 0) + (IF ms.dict THEN 1 ELSE 0)
           /\ (ms.rel = 1) <=> (created /\ ms.type = NULL)
           /\ (ms.phase = "freed") => ms.type = NULL
           /\ ~created => (ms.type = NULL /\ ms.rel = 0 /\ ms.trc = 0)
           /\ ms.dict <=> (ms.exec = "ok")

\* module_exec failed at PyModule_AddType after the type was created; the
\* module was cleared and then freed, and the reference was released once
C18_Witness ==
    \E m \in Modules :
        /\ mods[m].exec = "fail_add"
        /\ mods[m].phase = "freed"
        /\ mods[m].rel = 1 /\ mods[m].type = NULL /\ mods[m].trc = 0
====
